---- MODULE Spec2Model ----
(***************************************************************************)
(* Model of the stock dashboard's data layer.                              *)
(*                                                                         *)
(* Part 1: the incremental price synchronisation of data_fetcher.py        *)
(* (run_fetching, get_latest_date, fetch_yfinance, insert_prices) working  *)
(* on the stock_prices collection, with the market-data provider           *)
(* (yfinance) and the calendar as the environment.                         *)
(*                                                                         *)
(* Dates are day numbers counted from START_DATE (2015-01-01 is day 0).    *)
(* Numbers are held in tenths, so that float() and int() differ.           *)
(***************************************************************************)
EXTENDS Integers, Sequences, FiniteSets, Bags, TLC

\* ------------------------------------------------------------------ bounds
\* Last calendar day the model's clock reaches.
MaxDay == 2
\* Number of times the provider's data set changes (new, late or corrected bars).
MaxPublish == 2

\* --------------------------------------------------------- program constants
\* START_DATE = datetime(2015, 1, 1): day 0 of the model's calendar.
START_DATE == 0
\* timedelta(days=1) added to the latest stored date.
ONE_DAY == 1
\* get_latest_date's None: the ticker has no stored bar.
NoDate == -1
\* pandas' NaT: an index entry pd.to_datetime(..., errors="coerce") could not parse.
NaT == -2

\* get_company_list(): the tickers of the companies collection, in order.
tickers == <<"T1", "T2">>
Tickers == {tickers[n] : n \in 1..Len(tickers)}
Days == START_DATE..MaxDay
\* Callers of the module: two processes may run the sync at the same time.
Runners == {1, 2}

\* ------------------------------------------------------------ raw cell values
\* What row.get("<column>") can hand to safe_float / safe_int.
\* a Python/numpy scalar number (v in tenths)
Num(v) == [k |-> "num", v |-> v, s |-> <<>>]
\* the scalar float NaN
NaN == [k |-> "nan", v |-> 0, s |-> <<>>]
\* a pandas Series (multi-index columns); its elements are Num or NaN
Ser(s) == [k |-> "series", v |-> 0, s |-> s]
\* row.get of a column the frame lacks: None
Missing == [k |-> "none", v |-> 0, s |-> <<>>]
\* an object float()/int() reject with ValueError, such as a non-numeric string
Text == [k |-> "text", v |-> 0, s |-> <<>>]
\* values as stored in a document: a number, NaN, or null
Null == [k |-> "null", v |-> 0, s |-> <<>>]
\* an exception leaving the conversion
Raise == [k |-> "raise", v |-> 0, s |-> <<>>]

\* Series.dropna(): the elements that are not NaN, in order.
RECURSIVE dropna(_)
dropna(s) ==
    IF s = <<>> THEN <<>>
    ELSE (IF Head(s).k = "nan" THEN <<>> ELSE <<Head(s)>>) \o dropna(Tail(s))

\* int(x) of a number held in tenths: truncation toward zero.
Trunc(v) == IF v >= 0 THEN (v \div 10) * 10 ELSE 0 - (((0 - v) \div 10) * 10)

\* insert_prices.safe_float
safe_float(x) ==
    CASE x.k = "num" -> Num(x.v)
      [] x.k = "nan" -> NaN
      [] x.k = "series" ->
            IF dropna(x.s) # <<>> THEN Num(Head(dropna(x.s)).v) ELSE Null
      [] OTHER -> Null

\* insert_prices.safe_int: int(float("nan")) raises ValueError outside the try.
safe_int(x) ==
    CASE x.k = "num" -> Num(Trunc(x.v))
      [] x.k = "nan" -> Raise
      [] x.k = "series" ->
            IF dropna(x.s) # <<>> THEN Num(Trunc(Head(dropna(x.s)).v)) ELSE Num(0)
      [] OTHER -> Num(0)

\* The rows the provider is given to deliver (indices into this tuple).
\*  1: a complete row: scalars, a Series holding a value, a fractional volume
\*  2: a partial row: all-NaN Series, missing column, unparsable cell, NaN scalar
\*  3: a row whose volume is the scalar NaN
SampleRows == <<
    [Open |-> Num(100), High |-> Ser(<<NaN, Num(120)>>), Low |-> Num(95),
     Close |-> Num(110), Volume |-> Num(1005)],
    [Open |-> Ser(<<NaN>>), High |-> Missing, Low |-> Text, Close |-> NaN,
     Volume |-> Ser(<<NaN>>)],
    [Open |-> Num(30), High |-> Num(30), Low |-> Num(30), Close |-> Num(30),
     Volume |-> NaN] >>
RowIds == 1..Len(SampleRows)
\* provider cell without a bar
Absent == 0

\* ------------------------------------------------------------------- state
VARIABLES
    store,        \* db["stock_prices"]: a bag of documents
    provider,     \* what yfinance holds: provider[t][d] is a row id or Absent
    today,        \* datetime.today().date()
    pubs,         \* number of provider data changes so far
    pc,           \* pc[r]: where caller r is
    caller,       \* caller[r]: the entry point r came in by
    i,            \* i[r]: position of run_fetching's loop in tickers
    last_dt,      \* run_fetching's last_dt
    start_date,   \* run_fetching's start_date
    request,      \* the (ticker, start) of yf.download in this iteration, or none
    df,           \* the frame insert_prices iterates: a sequence of <<ts, row id>>
    k,            \* position of insert_prices' loop in df
    doc,          \* insert_prices' doc
    found,        \* whether update_one's filter matched a document
    exc,          \* the exception that left run_fetching, or "none"
    provSame,     \* provSame[r]: provider data unchanged since r's run began
    daySame,      \* daySame[r]: today unchanged since r's run began
    settled,      \* a run completed and the provider is unchanged since it began
    settledDay,   \* settled, and today is unchanged since that run began
    table,        \* the dashboard's price table df, or none
    first,        \* the first indicator call made on table, with what it returned
    second,       \* the second indicator call made on table, with what it returned
    view          \* the last comparison call, with what it returned

\* the dashboard's variables
dash == <<table, first, second, view>>

vars == <<store, provider, today, pubs, pc, caller, i, last_dt,
          start_date, request, df, k, doc, found, exc, provSame, daySame,
          settled, settledDay, dash>>

env == <<provider, today, pubs>>

NoReq == <<"", NoDate>>
NoDoc == [ticker |-> "", date |-> NoDate, open |-> Null, high |-> Null,
          low |-> Null, close |-> Null, volume |-> Null]
\* no table loaded, no call made
NoTable == [index |-> <<>>, close |-> <<>>, cols |-> <<>>]
NoCall == [fn |-> "", arg |-> <<>>, ret |-> <<>>]

\* ------------------------------------------------------------- the store
\* The documents of the collection matching {"ticker": t, "date": d}.
Matching(s, t, d) == {x \in BagToSet(s) : x.ticker = t /\ x.date = d}

\* Number of documents with key (t, d).
BarCount(s, t, d) ==
    LET m == Matching(s, t, d)
        RECURSIVE Sum(_)
        Sum(S) == IF S = {} THEN 0
                  ELSE LET x == CHOOSE y \in S : TRUE
                       IN CopiesIn(x, s) + Sum(S \ {x})
    IN Sum(m)

StoredDates(s, t) == {x.date : x \in {y \in BagToSet(s) : y.ticker = t}}

\* get_latest_date: find_one({"ticker": t}, sort=[("date", -1)]).
get_latest_date(s, t) ==
    IF StoredDates(s, t) = {} THEN NoDate
    ELSE CHOOSE m \in StoredDates(s, t) : \A d \in StoredDates(s, t) : d <= m

\* Variants of the start date used to test the properties below: the 7-day
\* lookback, and a fetch that starts on the latest stored date itself.
StartDateLookback(last) == IF last # NoDate THEN last - 7 ELSE START_DATE
StartDateInclusive(last) == IF last # NoDate THEN last ELSE START_DATE

\* run_fetching's choice of start_date from last_dt.
StartDate(last) == IF last # NoDate THEN last + ONE_DAY ELSE START_DATE

\* Variant: skipping only when the start date is after today.
UpToDateStrict(start, now) == start > now

\* fetch_yfinance's early return: start_dt.date() >= today.date().
UpToDate(start, now) == start >= now

\* yf.download(ticker, start=...): the provider's rows dated start or later, date
\* ascending.
RECURSIVE RowsFrom(_, _, _)
RowsFrom(p, t, d) ==
    IF d > MaxDay THEN <<>>
    ELSE (IF p[t][d] # Absent THEN << <<d, p[t][d]>> >> ELSE <<>>)
         \o RowsFrom(p, t, d + 1)

Download(p, t, start) ==
    RowsFrom(p, t, IF start < START_DATE THEN START_DATE ELSE start)

\* The frame as insert_prices sees it after pd.to_datetime(df.index,
\* errors="coerce"): an index entry that does not parse has become NaT.
Coerced(frame, bad) == (IF bad THEN << <<NaT, 1>> >> ELSE <<>>) \o frame

\* Variant: a loop that ends after its first row.
RowsLeftFirstOnly(frame, pos) == pos <= 1 /\ pos <= Len(frame)

\* for ts, row in df.iterrows(): whether the loop has a row at position pos.
RowsLeft(frame, pos) == pos <= Len(frame)

\* insert_prices' doc for one row (lines 124-132).
MakeDoc(t, ts, row) ==
    [ticker |-> t, date |-> ts,
     open |-> safe_float(row.Open), high |-> safe_float(row.High),
     low |-> safe_float(row.Low), close |-> safe_float(row.Close),
     volume |-> safe_int(row.Volume)]

\* Variant: a plain insert in place of the upsert.
insert_one(s, d, matched) == {s (+) SetToBag({d})}

\* Variant: a write that replaces the ticker's stored history by the new document.
replace_history(s, d, matched) ==
    {[x \in {y \in BagToSet(s) : y.ticker # d.ticker} |-> CopiesIn(x, s)]
        (+) SetToBag({d})}

\* sp.update_one(filter, {"$set": doc}, upsert=True), given whether the filter
\* matched: the stores it can leave.  A matched document takes the new fields; with
\* no match the document is inserted.  The collection has no unique index, so the
\* match and the insert are not one atomic step.
update_one(s, d, matched) ==
    IF matched /\ Matching(s, d.ticker, d.date) # {}
    THEN {(s (-) SetToBag({old})) (+) SetToBag({d}) :
             old \in Matching(s, d.ticker, d.date)}
    ELSE {s (+) SetToBag({d})}

\* ------------------------------------------------------------------- Init
\* No sync has run yet.
InitRun ==
    /\ provider = [t \in Tickers |-> [d \in Days |-> Absent]]
    /\ today = START_DATE + 1
    /\ pubs = 0
    /\ pc = [r \in Runners |-> "idle"]
    /\ caller = [r \in Runners |-> "none"]
    /\ i = [r \in Runners |-> 0]
    /\ last_dt = [r \in Runners |-> NoDate]
    /\ start_date = [r \in Runners |-> NoDate]
    /\ request = [r \in Runners |-> NoReq]
    /\ df = [r \in Runners |-> <<>>]
    /\ k = [r \in Runners |-> 0]
    /\ doc = [r \in Runners |-> NoDoc]
    /\ found = [r \in Runners |-> FALSE]
    /\ exc = [r \in Runners |-> "none"]
    /\ provSame = [r \in Runners |-> FALSE]
    /\ daySame = [r \in Runners |-> FALSE]
    /\ settled = FALSE
    /\ settledDay = FALSE

\* The dashboard has loaded and called nothing.
InitDash ==
    /\ table = NoTable
    /\ first = NoCall
    /\ second = NoCall
    /\ view = NoCall

Init ==
    /\ store = EmptyBag
    /\ InitRun
    /\ InitDash

\* ------------------------------------------------------------ environment
\* The calendar moves to the next day.
Tick ==
    /\ today < MaxDay
    /\ today' = today + 1
    /\ daySame' = [r \in Runners |-> FALSE]
    /\ settledDay' = FALSE
    /\ UNCHANGED <<store, provider, pubs, pc, caller, i, last_dt,
                   start_date, request, df, k, doc, found, exc, provSame, settled>>
    /\ UNCHANGED dash

\* The provider's data changes: a new bar, a bar delivered late, or a corrected bar.
Publish(t, d, row) ==
    /\ pubs < MaxPublish
    /\ d <= today
    /\ provider[t][d] # row
    /\ provider' = [provider EXCEPT ![t][d] = row]
    /\ pubs' = pubs + 1
    /\ provSame' = [r \in Runners |-> FALSE]
    /\ settled' = FALSE
    /\ settledDay' = FALSE
    /\ UNCHANGED <<store, today, pc, caller, i, last_dt, start_date,
                   request, df, k, doc, found, exc, daySame>>
    /\ UNCHANGED dash

\* ------------------------------------------------------------ run_fetching
\* run_fetching is called (lines 144-153).
Start(r) ==
    /\ pc[r] \in {"idle", "done", "raised"}
    /\ pc' = [pc EXCEPT ![r] = "loop"]
    /\ caller' = [caller EXCEPT ![r] = "run_fetching"]
    /\ i' = [i EXCEPT ![r] = 1]
    /\ exc' = [exc EXCEPT ![r] = "none"]
    /\ request' = [request EXCEPT ![r] = NoReq]
    /\ provSame' = [provSame EXCEPT ![r] = TRUE]
    /\ daySame' = [daySame EXCEPT ![r] = TRUE]
    /\ UNCHANGED <<store, env, last_dt, start_date, df, k, doc, found, settled,
                   settledDay>>
    /\ UNCHANGED dash

\* The loop is over: "Stock data auto-update completed" (line 171).
Finish(r) ==
    /\ pc[r] = "loop"
    /\ i[r] > Len(tickers)
    /\ pc' = [pc EXCEPT ![r] = "done"]
    /\ i' = [i EXCEPT ![r] = 0]
    /\ request' = [request EXCEPT ![r] = NoReq]
    /\ settled' = provSame[r]
    /\ settledDay' = (provSame[r] /\ daySame[r])
    /\ UNCHANGED <<store, env, caller, last_dt, start_date, df, k, doc, found,
                   exc, provSame, daySame>>
    /\ UNCHANGED dash

\* Top of the loop body: last_dt and start_date (lines 155-161).
GetLatest(r) ==
    /\ pc[r] = "loop"
    /\ i[r] <= Len(tickers)
    /\ last_dt' = [last_dt EXCEPT ![r] = get_latest_date(store, tickers[i[r]])]
    /\ start_date' = [start_date EXCEPT ![r] = StartDate(last_dt'[r])]
    /\ request' = [request EXCEPT ![r] = NoReq]
    /\ pc' = [pc EXCEPT ![r] = "fetch"]
    /\ UNCHANGED <<store, env, caller, i, df, k, doc, found, exc, provSame,
                   daySame, settled, settledDay>>
    /\ UNCHANGED dash

\* The end of an iteration (lines 166-169): on to the next ticker.
NextTicker(r) ==
    /\ pc' = [pc EXCEPT ![r] = "loop"]
    /\ i' = [i EXCEPT ![r] = i[r] + 1]
    /\ df' = [df EXCEPT ![r] = <<>>]
    /\ k' = [k EXCEPT ![r] = 0]
    /\ doc' = [doc EXCEPT ![r] = NoDoc]
    /\ found' = [found EXCEPT ![r] = FALSE]
    /\ last_dt' = [last_dt EXCEPT ![r] = NoDate]
    /\ start_date' = [start_date EXCEPT ![r] = NoDate]

\* An exception leaves run_fetching or insert_prices: their locals are gone.
Unwind(r) ==
    /\ pc' = [pc EXCEPT ![r] = "raised"]
    /\ i' = [i EXCEPT ![r] = 0]
    /\ df' = [df EXCEPT ![r] = <<>>]
    /\ k' = [k EXCEPT ![r] = 0]
    /\ doc' = [doc EXCEPT ![r] = NoDoc]
    /\ found' = [found EXCEPT ![r] = FALSE]
    /\ last_dt' = [last_dt EXCEPT ![r] = NoDate]
    /\ start_date' = [start_date EXCEPT ![r] = NoDate]

\* fetch_yfinance returns None without a request (lines 48-52).
FetchSkip(r) ==
    /\ pc[r] = "fetch"
    /\ UpToDate(start_date[r], today)
    /\ NextTicker(r)
    /\ UNCHANGED <<store, env, caller, request, exc,
                   provSame, daySame, settled, settledDay>>
    /\ UNCHANGED dash

\* yf.download raises (provider unreachable, malformed response): nothing in
\* fetch_yfinance or run_fetching catches it.
FetchFail(r) ==
    /\ pc[r] = "fetch"
    /\ ~UpToDate(start_date[r], today)
    /\ request' = [request EXCEPT ![r] = <<tickers[i[r]], start_date[r]>>]
    /\ Unwind(r)
    /\ exc' = [exc EXCEPT ![r] = "provider"]
    /\ UNCHANGED <<store, env, caller, provSame, daySame, settled, settledDay>>
    /\ UNCHANGED dash

\* Variant: an empty frame treated as a failure.
FetchEmptyRaises(r) ==
    /\ pc[r] = "fetch"
    /\ ~UpToDate(start_date[r], today)
    /\ Download(provider, tickers[i[r]], start_date[r]) = <<>>
    /\ request' = [request EXCEPT ![r] = <<tickers[i[r]], start_date[r]>>]
    /\ Unwind(r)
    /\ exc' = [exc EXCEPT ![r] = "ValueError"]
    /\ UNCHANGED <<store, env, caller, provSame, daySame, settled, settledDay>>
    /\ UNCHANGED dash

\* yf.download returns an empty frame: fetch_yfinance returns None (lines 65-67).
FetchEmpty(r) ==
    /\ pc[r] = "fetch"
    /\ ~UpToDate(start_date[r], today)
    /\ Download(provider, tickers[i[r]], start_date[r]) = <<>>
    /\ request' = [request EXCEPT ![r] = <<tickers[i[r]], start_date[r]>>]
    /\ NextTicker(r)
    /\ UNCHANGED <<store, env, caller, exc, provSame,
                   daySame, settled, settledDay>>
    /\ UNCHANGED dash

\* yf.download returns rows: insert_prices is entered (lines 69-70, 164-165).
FetchRows(r) ==
    /\ pc[r] = "fetch"
    /\ ~UpToDate(start_date[r], today)
    /\ Download(provider, tickers[i[r]], start_date[r]) # <<>>
    /\ request' = [request EXCEPT ![r] = <<tickers[i[r]], start_date[r]>>]
    /\ \E bad \in BOOLEAN :
          df' = [df EXCEPT ![r] =
                    Coerced(Download(provider, tickers[i[r]], start_date[r]), bad)]
    /\ k' = [k EXCEPT ![r] = 1]
    /\ pc' = [pc EXCEPT ![r] = "insert"]
    /\ UNCHANGED <<store, env, caller, i, last_dt, start_date, doc, found, exc,
                   provSame, daySame, settled, settledDay>>
    /\ UNCHANGED dash

\* ----------------------------------------------------------- insert_prices
\* A row whose timestamp is NaT is passed over (lines 119-120).
RowSkip(r) ==
    /\ pc[r] = "insert"
    /\ RowsLeft(df[r], k[r])
    /\ df[r][k[r]][1] = NaT
    /\ k' = [k EXCEPT ![r] = k[r] + 1]
    /\ UNCHANGED <<store, env, pc, caller, i, last_dt, start_date, request, df,
                   doc, found, exc, provSame, daySame, settled, settledDay>>
    /\ UNCHANGED dash

\* Building doc raises (safe_int on a NaN scalar): the exception leaves
\* insert_prices and run_fetching.
RowRaise(r) ==
    /\ pc[r] = "insert"
    /\ RowsLeft(df[r], k[r])
    /\ df[r][k[r]][1] # NaT
    /\ MakeDoc(tickers[i[r]], df[r][k[r]][1], SampleRows[df[r][k[r]][2]]).volume = Raise
    /\ Unwind(r)
    /\ exc' = [exc EXCEPT ![r] = "ValueError"]
    /\ UNCHANGED <<store, env, caller, request, provSame, daySame, settled,
                   settledDay>>
    /\ UNCHANGED dash

\* doc is built and update_one's filter is evaluated (lines 122-135).
RowDoc(r) ==
    /\ pc[r] = "insert"
    /\ RowsLeft(df[r], k[r])
    /\ df[r][k[r]][1] # NaT
    /\ LET d == MakeDoc(tickers[i[r]], df[r][k[r]][1], SampleRows[df[r][k[r]][2]])
       IN /\ d.volume # Raise
          /\ doc' = [doc EXCEPT ![r] = d]
          /\ found' = [found EXCEPT ![r] = Matching(store, d.ticker, d.date) # {}]
    /\ pc' = [pc EXCEPT ![r] = "update_one"]
    /\ UNCHANGED <<store, env, caller, i, last_dt, start_date, request, df, k,
                   exc, provSame, daySame, settled, settledDay>>
    /\ UNCHANGED dash

\* update_one writes (lines 134-139).
RowWrite(r) ==
    /\ pc[r] = "update_one"
    /\ store' \in update_one(store, doc[r], found[r])
    /\ k' = [k EXCEPT ![r] = k[r] + 1]
    /\ pc' = [pc EXCEPT ![r] = "insert"]
    /\ UNCHANGED <<env, caller, i, last_dt, start_date, request, df, doc, found,
                   exc, provSame, daySame, settled, settledDay>>
    /\ UNCHANGED dash

\* insert_prices returns to run_fetching's loop (lines 141, 169).
InsertReturn(r) ==
    /\ pc[r] = "insert"
    /\ ~RowsLeft(df[r], k[r])
    /\ caller[r] = "run_fetching"
    /\ NextTicker(r)
    /\ UNCHANGED <<store, env, caller, request, exc,
                   provSame, daySame, settled, settledDay>>
    /\ UNCHANGED dash

\* insert_prices is called on its own with a frame fetch_yfinance returned for
\* some start date (lines 73-83).
CallInsertPrices(r, n, start) ==
    /\ pc[r] \in {"idle", "done", "raised"}
    /\ Download(provider, tickers[n], start) # <<>>
    /\ caller' = [caller EXCEPT ![r] = "insert_prices"]
    /\ i' = [i EXCEPT ![r] = n]
    /\ exc' = [exc EXCEPT ![r] = "none"]
    /\ request' = [request EXCEPT ![r] = NoReq]
    /\ \E bad \in BOOLEAN :
          df' = [df EXCEPT ![r] = Coerced(Download(provider, tickers[n], start), bad)]
    /\ k' = [k EXCEPT ![r] = 1]
    /\ pc' = [pc EXCEPT ![r] = "insert"]
    /\ provSame' = [provSame EXCEPT ![r] = FALSE]
    /\ daySame' = [daySame EXCEPT ![r] = FALSE]
    /\ settled' = FALSE
    /\ settledDay' = FALSE
    /\ UNCHANGED <<store, env, last_dt, start_date, doc, found>>
    /\ UNCHANGED dash

\* insert_prices returns to that caller (line 141).
CallReturn(r) ==
    /\ pc[r] = "insert"
    /\ ~RowsLeft(df[r], k[r])
    /\ caller[r] = "insert_prices"
    /\ pc' = [pc EXCEPT ![r] = "idle"]
    /\ caller' = [caller EXCEPT ![r] = "none"]
    /\ i' = [i EXCEPT ![r] = 0]
    /\ df' = [df EXCEPT ![r] = <<>>]
    /\ k' = [k EXCEPT ![r] = 0]
    /\ doc' = [doc EXCEPT ![r] = NoDoc]
    /\ found' = [found EXCEPT ![r] = FALSE]
    /\ UNCHANGED <<store, env, last_dt, start_date, request, exc, provSame,
                   daySame, settled, settledDay>>
    /\ UNCHANGED dash

\* ------------------------------------------------------------------- Next
Environment ==
    \/ Tick
    \/ \E t \in Tickers, d \in Days, row \in RowIds : Publish(t, d, row)

\* The steps of a run once it has begun.
Body(r) ==
    \/ GetLatest(r)
    \/ FetchSkip(r)
    \/ FetchFail(r)
    \/ FetchEmpty(r)
    \/ FetchRows(r)
    \/ RowSkip(r)
    \/ RowRaise(r)
    \/ RowDoc(r)
    \/ RowWrite(r)
    \/ InsertReturn(r)
    \/ Finish(r)

\* A caller runs the sync again and again.
Sync(r) == Start(r) \/ Body(r)

\* One caller at a time: the sync as the dashboard and the daily job run it.
Next == Environment \/ Sync(1)

Spec == Init /\ [][Next]_vars

\* One caller that also calls insert_prices directly.
DirectCalls ==
    \/ \E n \in 1..Len(tickers), start \in Days : CallInsertPrices(1, n, start)
    \/ CallReturn(1)

NextCalls == Next \/ DirectCalls

SpecCalls == Init /\ [][NextCalls]_vars

\* Two callers, each running the sync once, whose runs overlap on the shared
\* collection.
Overlap(r) == (pc[r] = "idle" /\ Start(r)) \/ Body(r)

NextConc == Environment \/ \E r \in Runners : Overlap(r)

SpecConc == Init /\ [][NextConc]_vars

\* =============================================================== dashboard
\* ---------------------------------------------------------------- numbers
\* Prices and indicator values are exact fractions n/d in lowest terms with
\* d > 0; NA is pandas' NaN / pd.NA (a missing value).
NA == [n |-> 0, d |-> 0]

Abs(a) == IF a < 0 THEN 0 - a ELSE a

RECURSIVE GCD(_, _)
GCD(a, b) == IF b = 0 THEN a ELSE GCD(b, a % b)

Q(n, d) ==
    IF d = 0 THEN NA
    ELSE LET g == GCD(Abs(n), Abs(d))
             sg == IF d < 0 THEN 0 - 1 ELSE 1
         IN  [n |-> (sg * n) \div g, d |-> (sg * d) \div g]

Whole(c) == [n |-> c, d |-> 1]

\* Arithmetic and comparison as pandas/numpy do them element by element: a
\* missing operand gives a missing result, a comparison with it is False.
QAdd(a, b) == IF a = NA \/ b = NA THEN NA ELSE Q(a.n * b.d + b.n * a.d, a.d * b.d)
QSub(a, b) == IF a = NA \/ b = NA THEN NA ELSE Q(a.n * b.d - b.n * a.d, a.d * b.d)
QMul(a, b) == IF a = NA \/ b = NA THEN NA ELSE Q(a.n * b.n, a.d * b.d)
QDiv(a, b) == IF a = NA \/ b = NA \/ b.n = 0 THEN NA ELSE Q(a.n * b.d, a.d * b.n)
QNeg(a) == IF a = NA THEN NA ELSE [n |-> 0 - a.n, d |-> a.d]
QAbs(a) == IF a = NA THEN NA ELSE [n |-> Abs(a.n), d |-> a.d]
\* an/ad < bn/bd for ad, bd > 0, by whole parts and remainders
RECURSIVE Less(_, _, _, _)
Less(an, ad, bn, bd) ==
    IF an \div ad # bn \div bd THEN an \div ad < bn \div bd
    ELSE IF bn % bd = 0 THEN FALSE
    ELSE IF an % ad = 0 THEN TRUE
    ELSE Less(bd, bn % bd, ad, an % ad)

QLt(a, b) == a # NA /\ b # NA /\ Less(a.n, a.d, b.n, b.d)
QGt(a, b) == QLt(b, a)

\* The square root of a fraction q >= 0, kept exact as the fraction under the root.
Sqrt(q) == IF q = NA THEN NA ELSE [sqrt |-> q]

\* ----------------------------------------------------------------- frames
\* A DataFrame: the labels of its rows, its close column, and the columns added
\* to it (a function from column name to the column's values).
Frame(closes) == [index |-> [j \in 1..Len(closes) |-> j], close |-> closes,
                  cols |-> <<>>]

\* df[name] = values
SetCol(f, name, values) == [f EXCEPT !.cols = (name :> values) @@ f.cols]

\* df[mask]: the rows whose position is in keep, in their original order.
RECURSIVE Pick(_, _, _)
Pick(s, keep, j) ==
    IF j > Len(s) THEN <<>>
    ELSE (IF j \in keep THEN <<s[j]>> ELSE <<>>) \o Pick(s, keep, j + 1)

Filter(f, keep) ==
    [index |-> Pick(f.index, keep, 1), close |-> Pick(f.close, keep, 1),
     cols |-> [c \in DOMAIN f.cols |-> Pick(f.cols[c], keep, 1)]]

\* pd.DataFrame(): the empty frame
EmptyFrame == Frame(<<>>)

\* ----------------------------------------------------- pandas primitives
\* Sum and count of the values present in s[lo..hi]; s holds whole numbers
\* (closes, gains, losses, numerators over one denominator) and NA.
RECURSIVE SumPresent(_, _, _)
SumPresent(s, lo, hi) ==
    IF lo > hi THEN 0 ELSE s[hi].n + SumPresent(s, lo, hi - 1)

RECURSIVE SumSquares(_, _, _)
SumSquares(s, lo, hi) ==
    IF lo > hi THEN 0 ELSE s[hi].n * s[hi].n + SumSquares(s, lo, hi - 1)

RECURSIVE CountPresent(_, _, _)
CountPresent(s, lo, hi) ==
    IF lo > hi THEN 0 ELSE s[hi].d + CountPresent(s, lo, hi - 1)

\* first position of the trailing window of w rows ending at j
WindowStart(j, w) == IF j - w + 1 < 1 THEN 1 ELSE j - w + 1

\* Series.rolling(window, min_periods).mean(): the mean of the values present in
\* the trailing window, missing when fewer than min_periods are present.
rolling_mean(s, window, min_periods) ==
    [j \in 1..Len(s) |->
        LET lo == WindowStart(j, window)
            cnt == CountPresent(s, lo, j)
        IN  IF cnt < min_periods \/ cnt = 0 THEN NA
            ELSE Q(SumPresent(s, lo, j), cnt)]

\* Series.rolling(window, min_periods).std(): the sample standard deviation
\* (ddof = 1) of the values present in the trailing window, missing when fewer
\* than min_periods, or at most one, are present.
rolling_std(s, window, min_periods) ==
    [j \in 1..Len(s) |->
        LET lo == WindowStart(j, window)
            cnt == CountPresent(s, lo, j)
            sm == SumPresent(s, lo, j)
        IN  IF cnt < min_periods \/ cnt <= 1 THEN NA
            ELSE Sqrt(Q(cnt * SumSquares(s, lo, j) - sm * sm, cnt * (cnt - 1)))]

\* Series.ewm(span, adjust=False).mean(): the recursive weighted mean of column
\* "of", kept as the term it is computed from (the span and the rows weighed).
ewm_mean(of, s, span) ==
    [j \in 1..Len(s) |-> [ewm |-> of, span |-> span, adjust |-> FALSE, upto |-> j]]

\* Series.diff(): the first row has no predecessor.
diff(s) == [j \in 1..Len(s) |-> IF j = 1 THEN NA ELSE QSub(s[j], s[j - 1])]

\* Series.ffill()
RECURSIVE ffill(_)
ffill(s) ==
    IF Len(s) <= 1 THEN s
    ELSE LET init == ffill(SubSeq(s, 1, Len(s) - 1))
             last == s[Len(s)]
         IN  Append(init, IF last = NA THEN init[Len(init)] ELSE last)

\* Series.pct_change(): data / data.shift(1) - 1.  Whether missing closes are
\* first filled forward (fill_method="pad") depends on the pandas release.
pct_change(s, pad) ==
    LET data == IF pad THEN ffill(s) ELSE s
    IN  [j \in 1..Len(s) |->
            IF j = 1 THEN NA ELSE QSub(QDiv(data[j], data[j - 1]), Whole(1))]

\* -------------------------------------------------------------- indicators
\* Each indicator is given the frame df and yields the frame df is afterwards
\* (the columns assigned to it in place) and the value returned.
Outcome(after, returned) == [table |-> after, ret |-> returned]
\* an exception leaving the call
Raised(e) == [raised |-> e]

\* Variant: pandas' default min_periods (the full window) in place of 1.
compute_sma_full_window(f, window) ==
    LET g == SetCol(f, "SMA", rolling_mean(f.close, window, window))
    IN  Outcome(g, g)

\* compute_sma (calculations.py 49-53, analysis.py 39-41)
compute_sma(f, window) ==
    LET g == SetCol(f, "SMA", rolling_mean(f.close, window, 1))
    IN  Outcome(g, g)

\* compute_ema (calculations.py 56-60, analysis.py 44-46)
compute_ema(f, window) ==
    LET g == SetCol(f, "EMA", ewm_mean("close", f.close, window))
    IN  Outcome(g, g)

\* Variant: a change equal to the threshold counts as abrupt.
detect_abrupt_changes_at_least(f, threshold, pad) ==
    LET pc_ == pct_change(f.close, pad)
        g == SetCol(f, "pct_change", pc_)
    IN  Outcome(g, Filter(g, {j \in 1..Len(pc_) : ~QLt(QAbs(pc_[j]), threshold)
                                                   /\ pc_[j] # NA}))

\* detect_abrupt_changes (calculations.py 63-66, analysis.py 49-51)
detect_abrupt_changes(f, threshold, pad) ==
    LET pc_ == pct_change(f.close, pad)
        g == SetCol(f, "pct_change", pc_)
    IN  Outcome(g, Filter(g, {j \in 1..Len(pc_) : QGt(QAbs(pc_[j]), threshold)}))

\* Variant: partial windows allowed (min_periods = 1).
volatility_and_risk_partial(f, window) ==
    LET vol == rolling_std(f.close, window, 1)
        risk == [j \in 1..Len(vol) |->
                    IF vol[j] = NA \/ f.close[j] = NA THEN NA
                    ELSE Sqrt(QDiv(vol[j].sqrt, QMul(f.close[j], f.close[j])))]
        g == SetCol(SetCol(f, "volatility", vol), "risk", risk)
    IN  Outcome(g, g)

\* volatility_and_risk (calculations.py 128-132, analysis.py 54-57): rolling(window)
\* leaves min_periods at the window.  Closes are positive, so
\* sqrt(v) / c = sqrt(v / c^2).
volatility_and_risk(f, window) ==
    LET vol == rolling_std(f.close, window, window)
        risk == [j \in 1..Len(vol) |->
                    IF vol[j] = NA \/ f.close[j] = NA THEN NA
                    ELSE Sqrt(QDiv(vol[j].sqrt, QMul(f.close[j], f.close[j])))]
        g == SetCol(SetCol(f, "volatility", vol), "risk", risk)
    IN  Outcome(g, g)

\* the RSI period and the value given to rows without an RSI
RsiWindow == 14
RsiNeutral == 50

\* Variant: the oscillator formed from the ratio alone, 100 - 100 / rs.
rsi_14_ratio_only(close) ==
    LET delta == diff(close)
        gain == [j \in 1..Len(delta) |->
                    IF QGt(delta[j], Whole(0)) THEN delta[j] ELSE Whole(0)]
        loss == [j \in 1..Len(delta) |->
                    QNeg(IF QLt(delta[j], Whole(0)) THEN delta[j] ELSE Whole(0))]
        avg_gain == rolling_mean(gain, RsiWindow, RsiWindow)
        avg_loss == rolling_mean(loss, RsiWindow, RsiWindow)
        rs == [j \in 1..Len(delta) |->
                  QDiv(avg_gain[j], IF avg_loss[j] = Whole(0) THEN NA ELSE avg_loss[j])]
        rsi == [j \in 1..Len(delta) |->
                   QSub(Whole(100), QDiv(Whole(100), rs[j]))]
    IN  [j \in 1..Len(delta) |-> IF rsi[j] = NA THEN Whole(RsiNeutral) ELSE rsi[j]]

\* Variant: a zero average loss is divided by as it is, giving 100 when the
\* window has a gain and an undefined ratio, filled with 50, when it has none.
rsi_14_zero_loss_kept(close) ==
    LET delta == diff(close)
        gain == [j \in 1..Len(delta) |->
                    IF QGt(delta[j], Whole(0)) THEN delta[j] ELSE Whole(0)]
        loss == [j \in 1..Len(delta) |->
                    QNeg(IF QLt(delta[j], Whole(0)) THEN delta[j] ELSE Whole(0))]
        avg_gain == rolling_mean(gain, RsiWindow, RsiWindow)
        avg_loss == rolling_mean(loss, RsiWindow, RsiWindow)
        rsi == [j \in 1..Len(delta) |->
                   IF avg_loss[j] = Whole(0)
                   THEN (IF QGt(avg_gain[j], Whole(0)) THEN Whole(100) ELSE NA)
                   ELSE QSub(Whole(100),
                             QDiv(Whole(100),
                                  QAdd(Whole(1), QDiv(avg_gain[j], avg_loss[j]))))]
    IN  [j \in 1..Len(delta) |-> IF rsi[j] = NA THEN Whole(RsiNeutral) ELSE rsi[j]]

\* RSI_14 of add_technical_indicators (lines 95-105)
rsi_14(close) ==
    LET delta == diff(close)
        gain == [j \in 1..Len(delta) |->
                    IF QGt(delta[j], Whole(0)) THEN delta[j] ELSE Whole(0)]
        loss == [j \in 1..Len(delta) |->
                    QNeg(IF QLt(delta[j], Whole(0)) THEN delta[j] ELSE Whole(0))]
        avg_gain == rolling_mean(gain, RsiWindow, RsiWindow)
        avg_loss == rolling_mean(loss, RsiWindow, RsiWindow)
        rs == [j \in 1..Len(delta) |->
                  QDiv(avg_gain[j], IF avg_loss[j] = Whole(0) THEN NA ELSE avg_loss[j])]
        rsi == [j \in 1..Len(delta) |->
                   QSub(Whole(100), QDiv(Whole(100), QAdd(Whole(1), rs[j])))]
    IN  [j \in 1..Len(delta) |-> IF rsi[j] = NA THEN Whole(RsiNeutral) ELSE rsi[j]]

\* add_technical_indicators (lines 69-124): works on a copy of df.
add_technical_indicators(f) ==
    IF f.index = <<>> THEN Outcome(f, f)
    ELSE
    LET close == f.close
        sma_50 == rolling_mean(close, 50, 1)
        sma_200 == rolling_mean(close, 200, 1)
        ema_12 == ewm_mean("close", close, 12)
        ema_26 == ewm_mean("close", close, 26)
        macd == [j \in 1..Len(close) |-> [minus |-> <<ema_12[j], ema_26[j]>>]]
        macd_signal == ewm_mean("MACD", macd, 9)
        gc == [j \in 1..Len(close) |->
                  Whole(IF QGt(sma_50[j], sma_200[j]) /\ sma_50[j] # NA /\ sma_200[j] # NA
                        THEN 1 ELSE 0)]
        c1 == SetCol(f, "SMA_20", rolling_mean(close, 20, 1))
        c2 == SetCol(c1, "SMA_50", sma_50)
        c3 == SetCol(c2, "SMA_200", sma_200)
        c4 == SetCol(c3, "EMA_20", ewm_mean("close", close, 20))
        c5 == SetCol(c4, "EMA_50", ewm_mean("close", close, 50))
        c6 == SetCol(c5, "RSI_14", rsi_14(close))
        c7 == SetCol(c6, "MACD", macd)
        c8 == SetCol(c7, "MACD_signal", macd_signal)
        c9 == SetCol(c8, "MACD_hist",
                     [j \in 1..Len(close) |-> [minus |-> <<macd[j], macd_signal[j]>>]])
    IN  Outcome(f, SetCol(c9, "Golden_Cross", gc))

\* ------------------------------------------------------------- projection
\* sums over x = 0..n-1 and y for np.polyfit(x, y, 1)
RECURSIVE SumXY(_, _)
SumXY(y, j) == IF j = 0 THEN 0 ELSE (j - 1) * y[j].n + SumXY(y, j - 1)

\* the rows fitted, the horizon's number of projected days
lookback_rows(f, horizon) ==
    LET len == Len(f.close)
        lookback == IF horizon = "Short Term" THEN 60 ELSE 180
    IN  SubSeq(f.close, (IF len < lookback THEN 1 ELSE len - lookback + 1), len)

future_days(horizon) == IF horizon = "Short Term" THEN 15 ELSE 60

\* future_df of project_future (app.py 226-237).  The least-squares line through
\* (0, y[1]) .. (n-1, y[n]) is  price(x) = (Sy*D - S*Sx + n*S*x) / (n*D)  with
\* D = n*Sxx - Sx^2 and S = n*Sxy - Sx*Sy; it is extrapolated over
\* x = n .. n + future_days - 1 and given its rolling(20, min_periods=1) mean,
\* taken over the numerators, which share the denominator n*D.  A y holding NaN
\* has no fitted line: every projected value is NaN.
future_df(f, horizon) ==
    LET y == lookback_rows(f, horizon)
        n == Len(y)
        Sx == (n * (n - 1)) \div 2
        Sxx == ((n - 1) * n * (2 * n - 1)) \div 6
        Sy == SumPresent(y, 1, n)
        S == n * SumXY(y, n) - Sx * Sy
        D == n * Sxx - Sx * Sx
        fitted == CountPresent(y, 1, n) = n
        numerators == [j \in 1..future_days(horizon) |->
                          IF fitted
                          THEN Whole(Sy * D - S * Sx + n * S * (n + j - 1))
                          ELSE NA]
        future_prices == [j \in 1..future_days(horizon) |->
                             QDiv(numerators[j], Whole(n * D))]
        means == rolling_mean(numerators, 20, 1)
        sma == [j \in 1..future_days(horizon) |-> QDiv(means[j], Whole(n * D))]
    IN  SetCol(Frame(future_prices), "SMA", sma)

\* Variant: a projected price equal to its average counts as a buy candidate.
project_future_ties_buy(f, horizon, lapack_raises) ==
    LET y == lookback_rows(f, horizon)
        fd == future_df(f, horizon)
        rows == 1..Len(fd.close)
        buy == Filter(fd, {j \in rows : ~QGt(fd.close[j], fd.cols.SMA[j])
                                          /\ fd.close[j] # NA})
        sell == Filter(fd, {j \in rows : QGt(fd.close[j], fd.cols.SMA[j])})
    IN  IF Len(y) < 10 THEN Outcome(f, [buy |-> EmptyFrame, sell |-> EmptyFrame])
        ELSE IF CountPresent(y, 1, Len(y)) < Len(y) /\ lapack_raises
        THEN Outcome(f, Raised("LinAlgError"))
        ELSE Outcome(f, [buy |-> buy, sell |-> sell])

\* project_future (app.py 217-241).  np.polyfit on a y holding NaN either raises
\* LinAlgError or returns NaN coefficients, depending on the LAPACK build.
project_future(f, horizon, lapack_raises) ==
    LET y == lookback_rows(f, horizon)
        fd == future_df(f, horizon)
        rows == 1..Len(fd.close)
        buy == Filter(fd, {j \in rows : QLt(fd.close[j], fd.cols.SMA[j])})
        sell == Filter(fd, {j \in rows : QGt(fd.close[j], fd.cols.SMA[j])})
    IN  IF Len(y) < 10 THEN Outcome(f, [buy |-> EmptyFrame, sell |-> EmptyFrame])
        ELSE IF CountPresent(y, 1, Len(y)) < Len(y) /\ lapack_raises
        THEN Outcome(f, Raised("LinAlgError"))
        ELSE Outcome(f, [buy |-> buy, sell |-> sell])

\* ------------------------------------------------------ dashboard actions
\* the sync's variables
sync == <<store, provider, today, pubs, pc, caller, i, last_dt, start_date,
          request, df, k, doc, found, exc, provSame, daySame, settled, settledDay>>

\* inputs the calls are made with
CloseCells == {Whole(1), Whole(3), NA}
Windows == {1, 2, 3, 20}
Spans == {2, 20}
Thresholds == {Q(1, 20), Q(1, 10), Q(1, 2)}
Horizons == {"Short Term", "Long Term"}

\* An indicator call and its effect: the first or the second call made on table.
Call(fn, arg, o) ==
    /\ table.index # <<>>
    /\ second.fn = ""
    /\ table' = o.table
    /\ IF first.fn = ""
       THEN first' = [fn |-> fn, arg |-> arg, ret |-> o.ret] /\ UNCHANGED second
       ELSE second' = [fn |-> fn, arg |-> arg, ret |-> o.ret] /\ UNCHANGED first
    /\ UNCHANGED <<sync, view>>

CallComputeSma(window) == Call("compute_sma", window, compute_sma(table, window))

CallComputeEma(window) == Call("compute_ema", window, compute_ema(table, window))

CallDetectAbruptChanges(threshold) ==
    \E pad \in BOOLEAN :
        Call("detect_abrupt_changes", threshold,
             detect_abrupt_changes(table, threshold, pad))

CallVolatilityAndRisk(window) ==
    Call("volatility_and_risk", window, volatility_and_risk(table, window))

CallAddTechnicalIndicators ==
    Call("add_technical_indicators", <<>>, add_technical_indicators(table))

CallProjectFuture(horizon) ==
    \E lapack_raises \in BOOLEAN :
        Call("project_future", horizon, project_future(table, horizon, lapack_raises))

\* ---------------------------------------------------- price tables loaded
\* A table is HistLen days of an unchanged close followed by up to MaxTail days
\* of any closes, or those closing days alone.
HistLen == 12
MaxTail == 3

History(h) == [j \in 1..h |-> Whole(2)]
Tails == UNION {[1..n -> CloseCells] : n \in 0..MaxTail}
\* the price series of the documented example
ExampleCloses == <<Whole(100), Whole(105), Whole(98), Whole(120)>>
Tables ==
    ({Frame(History(h) \o tail) : h \in {0, HistLen}, tail \in Tails}
        \ {EmptyFrame}) \cup {Frame(ExampleCloses)}

InitCalc ==
    /\ store = EmptyBag
    /\ InitRun
    /\ table \in Tables
    /\ first = NoCall
    /\ second = NoCall
    /\ view = NoCall

NextCalc ==
    \/ \E w \in Windows : CallComputeSma(w)
    \/ \E w \in Spans : CallComputeEma(w)
    \/ \E th \in Thresholds : CallDetectAbruptChanges(th)
    \/ \E w \in Windows : CallVolatilityAndRisk(w)
    \/ CallAddTechnicalIndicators
    \/ \E h \in Horizons : CallProjectFuture(h)

\* The indicator library called on a loaded price table.
SpecCalc == InitCalc /\ [][NextCalc]_vars

\* ------------------------------------------------------------ price reads
\* no start_date / end_date given
NoRange == <<>>
\* the Python value None
None == [none |-> TRUE]

\* a stored close as a cell of the DataFrame built from the documents: a number
\* (kept in tenths), or NaN for NaN and null
Cell(c) == IF c.k = "num" THEN Whole(c.v) ELSE NA

\* fetch_prices (calculations.py 15-33, analysis.py 15-28): the ticker's closes by
\* trade date, or None without documents.  The date filter applies only when
\* both ends are given.  The collection holds one document per key here.
fetch_prices(s, t, range) ==
    LET data == {x \in BagToSet(s) :
                    /\ x.ticker = t
                    /\ range # NoRange => x.date >= range[1] /\ x.date <= range[2]}
    IN  IF data = {} THEN None
        ELSE [close |-> [d \in {x.date : x \in data} |->
                            Cell((CHOOSE x \in data : x.date = d).close)]]

\* .sort("date", 1): dates in ascending order
RECURSIVE Ascending(_)
Ascending(dates) ==
    IF dates = {} THEN <<>>
    ELSE LET m == CHOOSE m \in dates : \A d \in dates : m <= d
         IN  <<m>> \o Ascending(dates \ {m})

\* the tickers of the list for which fetch_prices returned a table, in order
RECURSIVE WithData(_, _, _)
WithData(s, list, range) ==
    IF list = <<>> THEN <<>>
    ELSE (IF fetch_prices(s, Head(list), range) = None THEN <<>> ELSE <<Head(list)>>)
            \o WithData(s, Tail(list), range)

\* pd.concat(series_list, axis=1, join="inner"): one column per series, on the
\* dates every series has
concat_inner(s, names, range) ==
    LET index == Ascending({d \in Days : \A n \in 1..Len(names) :
                               d \in DOMAIN fetch_prices(s, names[n], range).close})
    IN  [index |-> index, columns |-> names,
         cols |-> [t \in {names[n] : n \in 1..Len(names)} |->
                      [j \in 1..Len(index) |-> fetch_prices(s, t, range).close[index[j]]]]]

\* pd.DataFrame() in place of a joined table
EmptyJoin == [index |-> <<>>, columns |-> <<>>, cols |-> <<>>]

\* compare_companies (calculations.py 155-165)
compare_companies(s, list, range) ==
    IF WithData(s, list, range) = <<>> THEN EmptyJoin
    ELSE concat_inner(s, WithData(s, list, range), range)

\* sums over the rows on which both columns have a value
RECURSIVE SumBoth(_, _, _, _)
SumBoth(x, y, j, term) ==
    IF j = 0 THEN 0
    ELSE (IF x[j] = NA \/ y[j] = NA THEN 0
          ELSE CASE term = "n" -> 1
                 [] term = "x" -> x[j].n
                 [] term = "xx" -> x[j].n * x[j].n
                 [] term = "xy" -> x[j].n * y[j].n)
         + SumBoth(x, y, j - 1, term)

\* Pearson's r of two columns, as DataFrame.corr computes it over the rows
\* complete in both: cov / sqrt(var_x * var_y), missing when that divisor is 0.
\* Kept exact as the sign of cov and the fraction cov^2 / (var_x * var_y).
pearson(x, y) ==
    LET n == SumBoth(x, y, Len(x), "n")
        cov == n * SumBoth(x, y, Len(x), "xy")
                 - SumBoth(x, y, Len(x), "x") * SumBoth(y, x, Len(x), "x")
        var_x == n * SumBoth(x, y, Len(x), "xx")
                   - SumBoth(x, y, Len(x), "x") * SumBoth(x, y, Len(x), "x")
        var_y == n * SumBoth(y, x, Len(x), "xx")
                   - SumBoth(y, x, Len(x), "x") * SumBoth(y, x, Len(x), "x")
    IN  IF n = 0 \/ var_x * var_y = 0 THEN NA
        ELSE [sign |-> IF cov < 0 THEN 0 - 1 ELSE IF cov > 0 THEN 1 ELSE 0,
              sq |-> Q(cov * cov, var_x * var_y)]

\* DataFrame.corr(): the matrix of pairwise correlations of the columns
corr(merged) ==
    [a \in DOMAIN merged.cols |->
        [b \in DOMAIN merged.cols |-> pearson(merged.cols[a], merged.cols[b])]]

\* correlation_analysis (calculations.py 136-152)
correlation_analysis(s, list) ==
    IF WithData(s, list, NoRange) = <<>> THEN <<>>
    ELSE corr(concat_inner(s, WithData(s, list, NoRange), NoRange))

\* correlation_analysis of analysis.py (lines 60-67): merged starts as the first
\* Series; a Series has no join method, and Series.corr needs another Series.
analysis_correlation_analysis(s, list) ==
    CASE Len(WithData(s, list, NoRange)) = 0 -> None
      [] Len(WithData(s, list, NoRange)) = 1 -> Raised("TypeError")
      [] OTHER -> Raised("AttributeError")

\* tab4 of the dashboard (app.py 650-690): the joined table is charted column by
\* column for every selected ticker, then the correlation matrix is shown.
tab4(s, list, range) ==
    LET merged == compare_companies(s, list, range)
    IN  IF \E n \in 1..Len(list) : list[n] \notin DOMAIN merged.cols
        THEN Raised("KeyError")
        ELSE [merged |-> merged, corr |-> correlation_analysis(s, list)]

\* ------------------------------------------------------------ read actions
\* ticker selections and date ranges the reads are made with
Selections == {tickers, <<tickers[2], tickers[1]>>, <<tickers[1]>>}
Ranges == {NoRange, <<START_DATE + 1, MaxDay>>}

\* A read and what it returned; a page run makes one.
Read(fn, arg, returned) ==
    /\ view.fn = ""
    /\ view' = [fn |-> fn, arg |-> arg, ret |-> returned]
    /\ UNCHANGED <<sync, table, first, second>>

CallCompareCompanies(list, range) ==
    Read("compare_companies", <<list, range>>, compare_companies(store, list, range))

CallCorrelationAnalysis(list) ==
    Read("correlation_analysis", <<list, NoRange>>, correlation_analysis(store, list))

CallAnalysisCorrelationAnalysis(list) ==
    Read("analysis.correlation_analysis", <<list, NoRange>>,
         analysis_correlation_analysis(store, list))

RenderTab4(list, range) ==
    /\ Len(list) >= 2
    /\ Read("tab4", <<list, range>>, tab4(store, list, range))

\* ------------------------------------------------------- stores being read
\* closes a sync leaves in a document
StoredCloses == {Num(10), Num(20), NaN}
\* no document for a key
NoBar == [k |-> "absent", v |-> 0, s |-> <<>>]

\* Every collection with at most one document per ticker and day.
Stores ==
    {SetToBag({MakeDoc(key[1], key[2], [SampleRows[1] EXCEPT !.Close = bars[key]]) :
                  key \in {x \in Tickers \X Days : bars[x] # NoBar}}) :
        bars \in [Tickers \X Days -> StoredCloses \cup {NoBar}]}

InitRead ==
    /\ store \in Stores
    /\ InitRun
    /\ InitDash

NextRead ==
    \/ \E list \in Selections, range \in Ranges : CallCompareCompanies(list, range)
    \/ \E list \in Selections : CallCorrelationAnalysis(list)
    \/ \E list \in Selections : CallAnalysisCorrelationAnalysis(list)
    \/ \E list \in Selections, range \in Ranges : RenderTab4(list, range)

\* The dashboard's comparison reads on a synced collection.
SpecRead == InitRead /\ [][NextRead]_vars

\* ================================================================ properties
\* The latest stored date of ticker t is m.
IsLatest(s, t, m) ==
    /\ m \in StoredDates(s, t)
    /\ \A d \in StoredDates(s, t) : d <= m

\* The provider holds a bar for (t, d) that insert_prices can store.
Storable(t, d) == provider[t][d] # Absent /\ SampleRows[provider[t][d]].Volume.k # "nan"

\* ---------------------------------------------------------------- C1
\* C1 as stated: once a run has completed and the provider's data has not changed
\* since that run began, no later step of the sync changes the store.
IdempotentSync ==
    [][settled => store' = store]_vars

\* C1 (amended): once a run has completed and neither the provider's data nor the
\* calendar day has changed since that run began, no later step of the sync
\* changes the store, and a later run raises only if the provider request fails.
IdempotentSameDay ==
    [][settledDay =>
          /\ store' = store
          /\ \A r \in Runners :
                (pc'[r] = "raised" /\ pc[r] # "raised") => exc'[r] = "provider"]_vars

\* C1 witness: after a completed run, on the same day and provider data, a second
\* run has requested the first ticker's bars again and moved on.
IdempotentWitness ==
    /\ settledDay
    /\ store # EmptyBag
    /\ pc[1] = "loop"
    /\ i[1] = 2
    /\ request[1] # NoReq

\* ---------------------------------------------------------------- C2
\* C2 as stated: after a run that completed on unchanged provider data, every bar
\* the provider holds for a day before a ticker's latest stored date is stored.
GapRepaired ==
    \A r \in Runners : (pc[r] = "done" /\ provSame[r]) =>
        \A t \in Tickers, d \in Days :
            (/\ Storable(t, d)
             /\ \E m \in Days : IsLatest(store, t, m) /\ d < m) =>
                BarCount(store, t, d) = 1

\* C2 (amended): a day missing before a ticker's latest stored date stays missing
\* through every step of the sync, and the stored days keep one bar each; only
\* days from start_date on are filled: when insert_prices returns to the loop,
\* every row of the fetched frame with a valid timestamp has exactly one bar.
GapPersists ==
    [][/\ \A t \in Tickers, d \in Days :
             (/\ BarCount(store, t, d) = 0
              /\ \E m \in Days : IsLatest(store, t, m) /\ d < m) =>
                 BarCount(store', t, d) = 0
       /\ \A t \in Tickers, d \in Days :
             BarCount(store, t, d) = 1 => BarCount(store', t, d) = 1
       /\ \A r \in Runners :
             (pc[r] = "insert" /\ pc'[r] = "loop") =>
                 \A j \in 1..Len(df[r]) :
                     df[r][j][1] # NaT =>
                         /\ df[r][j][1] >= start_date[r]
                         /\ BarCount(store', tickers[i[r]], df[r][j][1]) = 1]_vars

\* C2 witness: a run that began after the provider delivered a bar for a day
\* before the ticker's latest stored date has completed, and the day is missing.
GapWitness ==
    \E t \in Tickers, d \in Days :
        /\ pc[1] = "done"
        /\ provSame[1]
        /\ Storable(t, d)
        /\ BarCount(store, t, d) = 0
        /\ \E m \in Days : IsLatest(store, t, m) /\ d < m

\* ---------------------------------------------------------------- C10
\* C10 as stated: after a run that completed on unchanged provider data, every bar
\* stored within 7 days before the ticker's latest stored date carries the
\* provider's current values.
CorrectionAbsorbed ==
    \A r \in Runners : (pc[r] = "done" /\ provSame[r]) =>
        \A x \in BagToSet(store) :
            (/\ Storable(x.ticker, x.date)
             /\ \E m \in Days : IsLatest(store, x.ticker, m) /\ x.date >= m - 7) =>
                x = MakeDoc(x.ticker, x.date, SampleRows[provider[x.ticker][x.date]])

\* C10 (amended): the sync overwrites no stored bar of any age: every step that
\* changes the store adds one bar, for a key that had none, dated after the
\* ticker's latest stored date.
NoOverwrite ==
    [][store' # store =>
          \E r \in Runners :
              /\ store' = store (+) SetToBag({doc[r]})
              /\ BarCount(store, doc[r].ticker, doc[r].date) = 0
              /\ \A d \in StoredDates(store, doc[r].ticker) : d < doc[r].date]_vars

\* C10 witness: a run that began after the provider corrected a stored bar has
\* completed, and the stored bar keeps its old values.
StaleBarWitness ==
    \E x \in BagToSet(store) :
        /\ pc[1] = "done"
        /\ provSame[1]
        /\ Storable(x.ticker, x.date)
        /\ x # MakeDoc(x.ticker, x.date, SampleRows[provider[x.ticker][x.date]])

\* ---------------------------------------------------------------- C3
\* C3 as stated: the request for a ticker starts 7 days before its latest stored
\* date, and at the epoch when it has no stored bar.
FetchStartLookback ==
    \A r \in Runners : pc[r] = "fetch" =>
        LET t == tickers[i[r]]
        IN /\ StoredDates(store, t) = {} => start_date[r] = START_DATE
           /\ \A m \in Days : IsLatest(store, t, m) => start_date[r] = m - 7

\* C3 (amended): the request for a ticker starts on the day after its latest stored
\* date, and at the epoch when it has no stored bar; the requested range holds no
\* day that is already stored, and the request made carries that start date.
FetchStartAfterLatest ==
    \A r \in Runners :
        /\ pc[r] = "fetch" =>
              LET t == tickers[i[r]]
              IN /\ StoredDates(store, t) = {} => start_date[r] = START_DATE
                 /\ \A m \in Days : IsLatest(store, t, m) => start_date[r] = m + 1
                 /\ \A d \in StoredDates(store, t) : d < start_date[r]
        /\ (pc[r] \in {"insert", "update_one"} /\ caller[r] = "run_fetching") =>
              request[r] = <<tickers[i[r]], start_date[r]>>

\* C3 witness: a fetch is about to be made for a ticker that has stored bars.
FetchStartWitness ==
    \E r \in Runners :
        /\ pc[r] = "fetch"
        /\ StoredDates(store, tickers[i[r]]) # {}
        /\ start_date[r] < today

\* ---------------------------------------------------------------- C4
\* C4 as stated: a failure while fetching or processing one ticker is caught and
\* the loop goes on: no exception ever leaves run_fetching.
FailureIsolated ==
    \A r \in Runners : caller[r] = "run_fetching" => pc[r] # "raised"

\* ---------------------------------------------------------------- C5
\* C5 as stated: when two overlapping runs have both completed, the store holds
\* one bar for each (ticker, date) it holds any bar for.
ConcurrentConvergence ==
    (\A r \in Runners : pc[r] = "done") =>
        \A x \in BagToSet(store) : BarCount(store, x.ticker, x.date) = 1

\* ---------------------------------------------------------------- C6
\* C6: in every state reached by run_fetching and insert_prices calls made one
\* after the other from an empty store, no (ticker, date) has more than one bar.
KeyUnique ==
    \A t \in Tickers, d \in Days : BarCount(store, t, d) <= 1

\* C6 witness: insert_prices has upserted a row whose key was already stored, and
\* the key has one bar.
KeyUniqueWitness ==
    \E r \in Runners :
        /\ pc[r] = "insert"
        /\ k[r] > 1
        /\ found[r]
        /\ doc[r] # NoDoc
        /\ BarCount(store, doc[r].ticker, doc[r].date) = 1

\* ---------------------------------------------------------------- C7
\* A cell that holds no number: NaN, absent, unparsable, or a Series of NaN only.
Defective(x) ==
    \/ x.k \in {"nan", "none", "text"}
    \/ x.k = "series" /\ \A j \in 1..Len(x.s) : x.s[j].k = "nan"

\* C7 as stated: no coercion raises, and every row insert_prices has gone past
\* that has a valid timestamp is stored with null for each open/high/low/close
\* cell that holds no number and 0 for a volume cell that holds no number.
DefensiveCoercion ==
    \A r \in Runners :
        /\ exc[r] # "ValueError"
        /\ \A j \in 1..Len(df[r]) :
              (pc[r] = "insert" /\ j < k[r] /\ df[r][j][1] # NaT) =>
                  \E x \in Matching(store, tickers[i[r]], df[r][j][1]) :
                      LET row == SampleRows[df[r][j][2]]
                      IN /\ Defective(row.Open) => x.open = Null
                         /\ Defective(row.High) => x.high = Null
                         /\ Defective(row.Low) => x.low = Null
                         /\ Defective(row.Close) => x.close = Null
                         /\ Defective(row.Volume) => x.volume = Num(0)

\* ---------------------------------------------------------------- C8
\* C8: when the start date computed for a ticker is not before today, the step
\* that leaves fetch_yfinance makes no provider request and no write, and the loop
\* is at the next ticker.
UpToDateSkip ==
    [][\A r \in Runners :
          (pc[r] = "fetch" /\ start_date[r] >= today /\ pc'[r] # "fetch") =>
              /\ request'[r] = NoReq
              /\ store' = store
              /\ exc'[r] = "none"
              /\ pc'[r] = "loop"
              /\ i'[r] = i[r] + 1]_vars

\* C8 witness: the loop has passed a ticker whose start date is not before today
\* without a request.
UpToDateSkipWitness ==
    \E r \in Runners :
        /\ pc[r] = "loop"
        /\ i[r] > 1
        /\ request[r] = NoReq
        /\ StoredDates(store, tickers[i[r] - 1]) # {}
        /\ \A m \in Days : IsLatest(store, tickers[i[r] - 1], m) => m + 1 >= today

\* ---------------------------------------------------------------- C9
\* C9: when the provider answers a ticker's request with no rows, that step writes
\* nothing, raises nothing, and leaves the loop at the next ticker.
EmptyResponseContinues ==
    [][\A r \in Runners :
          (/\ pc[r] = "fetch"
           /\ pc'[r] # "fetch"
           /\ start_date[r] < today
           /\ \A d \in Days : d >= start_date[r] => provider[tickers[i[r]]][d] = Absent
           /\ exc'[r] # "provider") =>
              /\ store' = store
              /\ exc'[r] = "none"
              /\ request'[r] = <<tickers[i[r]], start_date[r]>>
              /\ pc'[r] = "loop"
              /\ i'[r] = i[r] + 1]_vars

\* C9 witness: the loop has passed a ticker whose request the provider answered
\* with no rows.
EmptyResponseWitness ==
    \E r \in Runners :
        /\ pc[r] = "loop"
        /\ i[r] > 1
        /\ exc[r] = "none"
        /\ request[r] # NoReq
        /\ request[r][1] = tickers[i[r] - 1]
        /\ \A d \in Days : d >= request[r][2] => provider[request[r][1]][d] = Absent

\* ============================================== properties of the dashboard
\* the calls made on table so far, in order
Made == <<first, second>>
\* call m returned the value of function fn
Returned(m, fn) == Made[m].fn = fn /\ "raised" \notin DOMAIN Made[m].ret

\* ---------------------------------------------------------------- C11
\* C11: every value of the RSI_14 column that add_technical_indicators returns is
\* defined and lies in the closed interval [0, 100], whatever the closes are.
RsiBounded ==
    \A m \in 1..2 :
        Returned(m, "add_technical_indicators") =>
            \A j \in 1..Len(Made[m].ret.close) :
                LET v == Made[m].ret.cols.RSI_14[j]
                IN  v # NA /\ ~QLt(v, Whole(0)) /\ ~QGt(v, Whole(100))

\* add_technical_indicators returned an RSI that sits on the lower end of the
\* interval and, on another row, one strictly inside it other than the default.
RsiBoundedWitness ==
    /\ Returned(1, "add_technical_indicators")
    /\ \E j \in 1..Len(first.ret.close) : first.ret.cols.RSI_14[j] = Whole(0)
    /\ \E j \in 1..Len(first.ret.close) :
          /\ QGt(first.ret.cols.RSI_14[j], Whole(0))
          /\ first.ret.cols.RSI_14[j] # Whole(RsiNeutral)

\* ---------------------------------------------------------------- C12
\* C12 as stated: on each of the rows 0..13 (positions 1..14 here), which have
\* fewer than 14 close-to-close deltas before them, RSI_14 is exactly 50.
RsiNeutralBeforeWindow ==
    \A m \in 1..2 :
        Returned(m, "add_technical_indicators") =>
            \A j \in 1..Len(Made[m].ret.close) :
                j <= RsiWindow => Made[m].ret.cols.RSI_14[j] = Whole(RsiNeutral)

\* ---------------------------------------------------------------- C13
\* the trailing min(j, w) rows ending at row j
Trail(j, w) == {r \in 1..j : r > j - w}

\* the sum of the closes of the rows in rows
RECURSIVE SumOver(_, _)
SumOver(closes, rows) ==
    IF rows = {} THEN 0
    ELSE LET r == CHOOSE r \in rows : TRUE
         IN  closes[r].n + SumOver(closes, rows \ {r})

\* C13 as stated: every SMA value compute_sma returns is defined and is the
\* arithmetic mean of all the closes of the trailing min(i+1, window) rows.
SmaIsTrailingMean ==
    \A m \in 1..2 :
        Returned(m, "compute_sma") =>
            \A j \in 1..Len(Made[m].ret.close) :
                LET rows == Trail(j, Made[m].arg)
                    v == Made[m].ret.cols.SMA[j]
                IN  /\ v # NA
                    /\ \A r \in rows : Made[m].ret.close[r] # NA
                    /\ v.n * Cardinality(rows) = v.d * SumOver(Made[m].ret.close, rows)

\* C13, amended: every SMA value is the arithmetic mean of the closes present
\* among the trailing min(i+1, window) rows, and is undefined exactly when none of
\* those rows has a close.
SmaSkipsMissing ==
    \A m \in 1..2 :
        Returned(m, "compute_sma") =>
            \A j \in 1..Len(Made[m].ret.close) :
                LET present == {r \in Trail(j, Made[m].arg) : Made[m].ret.close[r] # NA}
                    v == Made[m].ret.cols.SMA[j]
                IN  IF present = {} THEN v = NA
                    ELSE /\ v # NA
                         /\ v.n * Cardinality(present)
                               = v.d * SumOver(Made[m].ret.close, present)

\* compute_sma returned for a window shorter than the table: a row before the
\* window is full has a partial mean, a later row averages around a missing
\* close, and a row whose window has no close has no SMA.
SmaWitness ==
    /\ Returned(1, "compute_sma")
    /\ first.arg = 2
    /\ Len(first.ret.close) >= 4
    /\ first.ret.close[1] # NA /\ first.ret.cols.SMA[1] = first.ret.close[1]
    /\ \E j \in 3..Len(first.ret.close) :
          first.ret.close[j - 1] = NA /\ first.ret.cols.SMA[j] = first.ret.close[j]
             /\ first.ret.close[j] # NA
    /\ \E j \in 1..Len(first.ret.close) : first.ret.cols.SMA[j] = NA

\* ---------------------------------------------------------------- C14
\* the close moved from prev to cur by strictly more than threshold, relative
\* to prev (closes are positive)
Abrupt(prev, cur, threshold) ==
    /\ prev # NA /\ cur # NA
    /\ Abs(cur.n - prev.n) * threshold.d > threshold.n * prev.n

\* the last close present at or before row j, if any
RECURSIVE LastPresent(_, _)
LastPresent(closes, j) ==
    IF j = 0 THEN NA
    ELSE IF closes[j] # NA THEN closes[j] ELSE LastPresent(closes, j - 1)

\* C14 as stated: detect_abrupt_changes returns exactly the rows i >= 1 with
\* |close[i] - close[i-1]| / close[i-1] > threshold, in their original order, never
\* the first row; for closes [100, 105, 98, 120] and threshold 0.10 it returns
\* only the row of the move from 98 to 120.
AbruptRowsExact ==
    \A m \in 1..2 :
        Returned(m, "detect_abrupt_changes") =>
            /\ Made[m].ret.index =
                  Pick(table.index,
                       {j \in 2..Len(table.close) :
                           Abrupt(table.close[j - 1], table.close[j], Made[m].arg)}, 1)
            /\ (table.close = ExampleCloses /\ Made[m].arg = Q(1, 10)
                   => Made[m].ret.index = <<4>>)

\* C14, amended: the rows returned are exactly the rows i >= 1 whose close moved
\* by strictly more than threshold relative to the close before, in their
\* original order, never the first row; around missing closes the closes compared
\* are either those of rows i-1 and i themselves or the last closes present up to
\* those rows, one or the other for the whole call; the documented example
\* returns only its last row.
AbruptRowsByRelease ==
    \A m \in 1..2 :
        Returned(m, "detect_abrupt_changes") =>
            /\ \/ Made[m].ret.index =
                     Pick(table.index,
                          {j \in 2..Len(table.close) :
                              Abrupt(table.close[j - 1], table.close[j], Made[m].arg)}, 1)
               \/ Made[m].ret.index =
                     Pick(table.index,
                          {j \in 2..Len(table.close) :
                              Abrupt(LastPresent(table.close, j - 1),
                                     LastPresent(table.close, j), Made[m].arg)}, 1)
            /\ (table.close = ExampleCloses /\ Made[m].arg = Q(1, 10)
                   => Made[m].ret.index = <<4>>)

\* detect_abrupt_changes returned for threshold one half on a table in which the
\* close halves on one row, which is not returned, and triples on another,
\* which is.
AbruptWitness ==
    /\ Returned(1, "detect_abrupt_changes")
    /\ first.arg = Q(1, 2)
    /\ \E j \in 2..Len(table.close) :
          /\ table.close[j - 1] = Whole(2) /\ table.close[j] = Whole(1)
          /\ \A r \in 1..Len(first.ret.index) : first.ret.index[r] # j
    /\ \E j \in 2..Len(table.close) :
          /\ table.close[j - 1] = Whole(1) /\ table.close[j] = Whole(3)
          /\ \E r \in 1..Len(first.ret.index) : first.ret.index[r] = j

\* ---------------------------------------------------------------- C15
\* C15 as stated: volatility and risk are undefined on each of the first w-1 rows
\* and defined on every row from the w-th on.
RiskUndefinedUntilWindow ==
    \A m \in 1..2 :
        Returned(m, "volatility_and_risk") =>
            \A j \in 1..Len(Made[m].ret.close) :
                LET vol == Made[m].ret.cols.volatility[j]
                    risk == Made[m].ret.cols.risk[j]
                IN  IF j < Made[m].arg THEN vol = NA /\ risk = NA
                    ELSE vol # NA /\ risk # NA

\* C15, amended: volatility and risk are undefined on each of the first w-1 rows,
\* and from the w-th row on they are defined exactly on the rows whose trailing w
\* rows all have a close, provided w >= 2; with w = 1 they are undefined on every
\* row.
RiskDefinedOnFullWindows ==
    \A m \in 1..2 :
        Returned(m, "volatility_and_risk") =>
            \A j \in 1..Len(Made[m].ret.close) :
                LET vol == Made[m].ret.cols.volatility[j]
                    risk == Made[m].ret.cols.risk[j]
                    full == /\ Made[m].arg >= 2
                            /\ j >= Made[m].arg
                            /\ \A r \in Trail(j, Made[m].arg) : Made[m].ret.close[r] # NA
                IN  /\ vol # NA <=> full
                    /\ risk # NA <=> full

\* volatility_and_risk returned for window 3: the first two rows have neither
\* value, a later row with three closes has both, and another later row, whose
\* window has a missing close, has neither.
RiskWitness ==
    /\ Returned(1, "volatility_and_risk")
    /\ first.arg = 3
    /\ Len(first.ret.close) >= 3
    /\ first.ret.cols.risk[1] = NA /\ first.ret.cols.risk[2] = NA
    /\ first.ret.close[1] # NA /\ first.ret.close[2] # NA
    /\ \E j \in 3..Len(first.ret.close) :
          first.ret.cols.volatility[j] # NA /\ first.ret.cols.risk[j] # NA
    /\ \E j \in 3..Len(first.ret.close) :
          first.ret.cols.volatility[j] = NA /\ first.ret.cols.risk[j] = NA

\* ---------------------------------------------------------------- C16
\* the tickers of a selection
Selected(list) == {list[n] : n \in 1..Len(list)}

\* C16 as stated: the table compare_companies returns has one column per
\* requested ticker, and its dates are exactly the dates stored for every
\* requested ticker.
JoinIsIntersection ==
    view.fn = "compare_companies" =>
        /\ DOMAIN view.ret.cols = Selected(view.arg[1])
        /\ {view.ret.index[j] : j \in 1..Len(view.ret.index)}
              = {d \in Days : \A t \in Selected(view.arg[1]) : d \in StoredDates(store, t)}

\* ---------------------------------------------------------------- C17
\* the correlation of a column with itself
One == [sign |-> 1, sq |-> Whole(1)]

\* C17 as stated: for two or more tickers whose stored dates overlap,
\* correlation_analysis returns a matrix over those tickers that is symmetric and
\* whose every diagonal entry is defined and equal to 1.
CorrSymmetricUnitDiagonal ==
    /\ view.fn \in {"correlation_analysis", "analysis.correlation_analysis"}
    /\ Len(view.arg[1]) >= 2
    /\ \E d \in Days : \A t \in Selected(view.arg[1]) : d \in StoredDates(store, t)
    => /\ "raised" \notin DOMAIN view.ret
       /\ DOMAIN view.ret = Selected(view.arg[1])
       /\ \A a \in DOMAIN view.ret :
             /\ view.ret[a][a] = One
             /\ \A b \in DOMAIN view.ret : view.ret[a][b] = view.ret[b][a]

\* ---------------------------------------------------------------- C18
\* the row labels of a frame
Labels(f) == {f.index[j] : j \in 1..Len(f.index)}

\* the projected points of a call: those of the horizon's future business days
\* when a line was fitted (10 rows or more, every close present), else none
ProjectedPoints(horizon) ==
    IF /\ Len(lookback_rows(table, horizon)) >= 10
       /\ \A j \in 1..Len(table.close) : table.close[j] # NA
    THEN 1..future_days(horizon)
    ELSE {}

\* every row of the frame has its projected price on the given side of its SMA
AllBelow(f) == \A j \in 1..Len(f.index) : QLt(f.close[j], f.cols.SMA[j])
AllAbove(f) == \A j \in 1..Len(f.index) : QGt(f.close[j], f.cols.SMA[j])

\* C18 as stated: the buy table holds projected points below their trailing
\* average, the sell table points above it, and every projected point (15 for the
\* short term, 60 for the long term) is in exactly one of the two tables.
ProjectionPartitions ==
    \A m \in 1..2 :
        Returned(m, "project_future") =>
            /\ AllBelow(Made[m].ret.buy)
            /\ AllAbove(Made[m].ret.sell)
            /\ Labels(Made[m].ret.buy) \cup Labels(Made[m].ret.sell)
                  = ProjectedPoints(Made[m].arg)
            /\ Labels(Made[m].ret.buy) \cap Labels(Made[m].ret.sell) = {}

\* C18, amended: the buy table holds exactly the projected points below their
\* trailing average and the sell table exactly those above it; a point equal to
\* its average is in neither, as the first projected point always is, so every
\* projected point is in at most one table; nothing is projected from fewer
\* than 10 rows or from rows with a missing close.
ProjectionClassifies ==
    \A m \in 1..2 :
        Returned(m, "project_future") =>
            LET fd == future_df(table, Made[m].arg)
                points == ProjectedPoints(Made[m].arg)
            IN  /\ Labels(Made[m].ret.buy)
                      = {j \in points : QLt(fd.close[j], fd.cols.SMA[j])}
                /\ Labels(Made[m].ret.sell)
                      = {j \in points : QGt(fd.close[j], fd.cols.SMA[j])}
                /\ AllBelow(Made[m].ret.buy)
                /\ AllAbove(Made[m].ret.sell)
                /\ Labels(Made[m].ret.buy) \cap Labels(Made[m].ret.sell) = {}
                /\ \A j \in points \ (Labels(Made[m].ret.buy) \cup Labels(Made[m].ret.sell)) :
                      fd.close[j] = fd.cols.SMA[j]
                /\ 1 \notin Labels(Made[m].ret.buy) \cup Labels(Made[m].ret.sell)

\* project_future returned for the short term from a falling table: the first of
\* the 15 projected points is in neither table and the 14 others are buy
\* candidates.
ProjectionWitness ==
    /\ Returned(1, "project_future")
    /\ first.arg = "Short Term"
    /\ ProjectedPoints(first.arg) = 1..15
    /\ Labels(first.ret.buy) = 2..15
    /\ Labels(first.ret.sell) = {}

\* ---------------------------------------------------------------- C19
\* the indicator functions of calculations.py
Indicators == {"compute_sma", "compute_ema", "detect_abrupt_changes",
               "volatility_and_risk", "add_technical_indicators"}

\* the price table as it was loaded: the calls add columns only
Loaded == Frame(table.close)

\* what the m-th call returns when it is the only call made on the loaded table
Alone(m) ==
    LET fn == Made[m].fn
        arg == Made[m].arg
    IN  IF fn = "compute_sma" THEN {compute_sma(Loaded, arg).ret}
        ELSE IF fn = "compute_ema" THEN {compute_ema(Loaded, arg).ret}
        ELSE IF fn = "detect_abrupt_changes"
        THEN {detect_abrupt_changes(Loaded, arg, pad).ret : pad \in BOOLEAN}
        ELSE IF fn = "volatility_and_risk" THEN {volatility_and_risk(Loaded, arg).ret}
        ELSE {add_technical_indicators(Loaded).ret}

\* C19: an indicator function leaves the price table passed to it as it was
\* loaded (same columns, same values), and each call on a table, whatever was
\* called on the table before it, returns what it returns on the loaded table.
IndicatorPurity ==
    \A m \in 1..2 :
        Made[m].fn \in Indicators =>
            /\ table = Loaded
            /\ Made[m].ret \in Alone(m)

\* ================================================== properties of the store
\* ---------------------------------------------------------------- C20
\* the ticker a caller is processing
Processing(r) == doc[r].ticker

\* C20: across run_fetching runs no step removes a stored bar, a step that
\* changes the store changes the bars of the ticker being processed only, and no
\* ticker's latest stored trade date decreases.
StoreMonotone ==
    [][/\ \A t \in Tickers, d \in Days : BarCount(store', t, d) >= BarCount(store, t, d)
       /\ store' # store =>
             \E r \in Runners :
                 \A x \in BagToSet(store) \cup BagToSet(store') :
                     x.ticker # Processing(r) => CopiesIn(x, store') = CopiesIn(x, store)
       /\ \A t \in Tickers : get_latest_date(store', t) >= get_latest_date(store, t)]_vars

\* C20 witness: a later run has added a bar to a ticker that had one for day 0:
\* with both runs complete the day-0 bar is still stored and the ticker's latest
\* stored date has moved to a later day.
StoreMonotoneWitness ==
    /\ pc[1] = "done"
    /\ BarCount(store, "T1", 0) = 1
    /\ get_latest_date(store, "T1") > 0

\* ================================== further properties of the dashboard
\* ---------------------------------------------------------------- C21
\* the close fell from row j - 1 to row j of the table
Fell(f, j) ==
    j >= 2 /\ f.close[j - 1] # NA /\ f.close[j] # NA /\ QLt(f.close[j], f.close[j - 1])

\* the close rose from row j - 1 to row j of the table
Rose(f, j) ==
    j >= 2 /\ f.close[j - 1] # NA /\ f.close[j] # NA /\ QGt(f.close[j], f.close[j - 1])

\* the rows of the 14-value window ending at row j
RsiRows(j) == (j - RsiWindow + 1)..j

\* C21: on every row whose window of 14 values is full and holds no fall of the
\* close, so that the average loss is zero, RSI_14 is 50, whether the closes of
\* the window rise or stay flat.
RsiNeutralWithoutLosses ==
    \A m \in 1..2 :
        Returned(m, "add_technical_indicators") =>
            \A j \in 1..Len(Made[m].ret.close) :
                (j >= RsiWindow /\ \A n \in RsiRows(j) : ~Fell(Made[m].ret, n)) =>
                    Made[m].ret.cols.RSI_14[j] = Whole(RsiNeutral)

\* C21 witness: add_technical_indicators returned a table with a row whose full
\* window holds a rise and no fall, and a row whose full window is flat; RSI_14
\* is 50 on both.
RsiNoLossWitness ==
    /\ Returned(1, "add_technical_indicators")
    /\ \E j \in RsiWindow..Len(first.ret.close) :
          /\ \A n \in RsiRows(j) : ~Fell(first.ret, n)
          /\ \E n \in RsiRows(j) : Rose(first.ret, n)
          /\ first.ret.cols.RSI_14[j] = Whole(RsiNeutral)
    /\ \E j \in RsiWindow..Len(first.ret.close) :
          /\ \A n \in RsiRows(j) : ~Fell(first.ret, n) /\ ~Rose(first.ret, n)
          /\ first.ret.cols.RSI_14[j] = Whole(RsiNeutral)

\* ---------------------------------------------------------------- C22
\* C22: a call of project_future that returns never returns a non-empty buy
\* table together with a non-empty sell table, the two tables share no date,
\* the first projected point is in neither, and from fewer than 10 rows both
\* tables are empty.
ProjectionOneSided ==
    \A m \in 1..2 :
        Returned(m, "project_future") =>
            /\ Labels(Made[m].ret.buy) = {} \/ Labels(Made[m].ret.sell) = {}
            /\ Labels(Made[m].ret.buy) \cap Labels(Made[m].ret.sell) = {}
            /\ 1 \notin Labels(Made[m].ret.buy)
            /\ 1 \notin Labels(Made[m].ret.sell)
            /\ Len(table.close) < 10 =>
                  Made[m].ret.buy = EmptyFrame /\ Made[m].ret.sell = EmptyFrame

\* C22 witness: project_future returned for the long term from a table of 10 rows
\* or more whose fitted line rises: the buy table is empty and the sell table
\* holds the projected points 2..60, all but the first.
ProjectionOneSidedWitness ==
    /\ Returned(1, "project_future")
    /\ first.arg = "Long Term"
    /\ Len(table.close) >= 10
    /\ Labels(first.ret.buy) = {}
    /\ Labels(first.ret.sell) = 2..60
====
